---- MODULE Spec2Model ----
(***************************************************************************)
(* Mastery Dashboard: the habit list kept by App (src/src/App.tsx), the    *)
(* schedule and streak functions of App.tsx and the habit statistics of    *)
(* the modal (src/src/components/AddHabitModal.tsx), the form of the modal *)
(* and the category presets it keeps in browser storage.                   *)
(*                                                                         *)
(* Time.  A Date is its local time stamp counted in whole seconds since    *)
(* the local epoch (1970-01-01 00:00, a Thursday); the source counts       *)
(* milliseconds, and every time stamp of the model is a whole second, so   *)
(* the factor 1000 of the source's day length cancels.  The local zone has *)
(* a fixed offset (no daylight-saving change), so a calendar day is        *)
(* exactly DAY seconds long.                                               *)
(*                                                                         *)
(* Values.  A completed entry is "true", "false" or "null"; a key that is  *)
(* not in the map reads as "undefined".  A date key 'yyyy-MM-dd' is the    *)
(* triple <<year, month, day>>.                                            *)
(***************************************************************************)
EXTENDS Integers, Sequences, FiniteSets, TLC

VARIABLES
    habits,               \* App: useState<Habit[]>
    draggedHabitId,       \* App: useState<number | null>
    showAddHabitModal,    \* App: useState(false)
    selectedHabitToEdit,  \* App: useState<Habit | null>
    form,                 \* AddHabitModal: the useState fields of the form
    steps,                \* the number of events handled so far
    localStorage,         \* the text stored under 'bolt_habit_categories'
    allCategoriesMap,     \* AddHabitModal: useState(loadCategoriesFromLocalStorage)
    currentDate,          \* App: useState(new Date())
    viewMode,             \* App: useState<'week' | 'month' | 'year'>('week')
    now,                  \* the wall clock read by Date.now() and new Date()
    habit,                \* the habit an engine function is called with
    date,                 \* the date isHabitScheduledOnDay is called with
    call,                 \* the engine function that has been called
    result                \* what it returned

appVars ==
    <<habits, draggedHabitId, showAddHabitModal, selectedHabitToEdit, form, steps>>

storageVars == <<localStorage, allCategoriesMap>>

viewVars == <<currentDate, viewMode>>

engineVars == <<habit, date, call, result>>

vars == <<appVars, now, engineVars, storageVars, viewVars>>

\* null for a state that holds a number or a record: the empty sequence, the
\* value v being <<v>>
None == <<>>

Some(v) == <<v>>

\* the number NaN
NaN == None

Null == "null"
Undefined == "undefined"

Abs(x) == IF x < 0 THEN -x ELSE x

Min(S) == CHOOSE x \in S : \A y \in S : x <= y

Max(S) == CHOOSE x \in S : \A y \in S : x >= y

(***************************************************************************)
(* Dates                                                                   *)
(***************************************************************************)
\* 1000 * 60 * 60 * 24 milliseconds, in seconds
DAY == 60 * 60 * 24

\* date.setHours(0, 0, 0, 0)
setHoursZero(d) == d - (d % DAY)

\* date.getDay(): 0 = Sunday .. 6 = Saturday
getDay(d) == ((d \div DAY) + 4) % 7

\* mutant: the table of names starts at Monday
weekdayShortFromMonday(d) ==
    <<"Mon", "Tue", "Wed", "Thu", "Fri", "Sat", "Sun">>[getDay(d) + 1]

\* date.toLocaleString('en-US', { weekday: 'short' })
weekdayShort(d) ==
    <<"Sun", "Mon", "Tue", "Wed", "Thu", "Fri", "Sat">>[getDay(d) + 1]

\* getFullYear(), getMonth() + 1 and getDate() of the proleptic Gregorian
\* calendar, from the number of days since 1970-01-01
civilFromDays(z0) ==
    LET z   == z0 + 719468
        era == z \div 146097
        doe == z - era * 146097
        yoe == (doe - (doe \div 1460) + (doe \div 36524) - (doe \div 146096)) \div 365
        doy == doe - (365 * yoe + (yoe \div 4) - (yoe \div 100))
        mp  == (5 * doy + 2) \div 153
        d   == doy - ((153 * mp + 2) \div 5) + 1
        m   == IF mp < 10 THEN mp + 3 ELSE mp - 9
        y   == yoe + era * 400 + (IF m <= 2 THEN 1 ELSE 0)
    IN  <<y, m, d>>

\* formatDate(date, 'yyyy-MM-dd')
formatDate(d) == civilFromDays(d \div DAY)

addDays(d, days) == d + days * DAY

\* new Date(year, month - 1, day): the number of days since 1970-01-01
daysFromCivil(y0, m, d) ==
    LET y   == IF m <= 2 THEN y0 - 1 ELSE y0
        era == y \div 400
        yoe == y - era * 400
        doy == ((153 * (IF m > 2 THEN m - 3 ELSE m + 9) + 2) \div 5) + d - 1
        doe == yoe * 365 + (yoe \div 4) - (yoe \div 100) + doy
    IN  era * 146097 + doe - 719468

\* the local midnight that a date key names
keyDate(k) == daysFromCivil(k[1], k[2], k[3]) * DAY

getDaysDifference(date1, date2) == Abs(date2 - date1) \div DAY

\* a % b === 0 for a >= 0: the remainder by 0 is NaN, which is not 0
remainderIsZero(a, b) == b # 0 /\ a % Abs(b) = 0

\* habit.completed[dateString]
completedAt(h, key) ==
    IF key \in DOMAIN h.completed THEN h.completed[key] ELSE Undefined

\* if (isCompleted)
truthy(v) == v = "true"

(***************************************************************************)
(* Schedule (App.tsx)                                                      *)
(***************************************************************************)
\* mutant: an unrecognised frequencyType is never due, and the count of
\* 'Numbers of times per period' is taken for a cycle length
isHabitScheduledOnDayFailClosed(h, d) ==
    CASE h.frequencyType = "Everyday" -> TRUE
      [] h.frequencyType = "Anytime" -> TRUE
      [] h.frequencyType = "Some days of the week" ->
            weekdayShort(d) \in h.selectedDays
      [] h.frequencyType = "Numbers of times per period" ->
            remainderIsZero(getDaysDifference(h.id, d), h.timesPerPeriod)
      [] h.frequencyType = "Repeats" ->
            IF h.repeatDays <= 1 THEN TRUE
            ELSE remainderIsZero(getDaysDifference(h.id, d), h.repeatDays)
      [] OTHER -> FALSE

\* mutant: only repeatDays = 1 means every day
isHabitScheduledOnDayOnlyOne(h, d) ==
    CASE h.frequencyType = "Some days of the week" ->
            weekdayShort(d) \in h.selectedDays
      [] h.frequencyType = "Repeats" ->
            IF h.repeatDays = 1 THEN TRUE
            ELSE remainderIsZero(getDaysDifference(h.id, d), h.repeatDays)
      [] OTHER -> TRUE

isHabitScheduledOnDay(h, d) ==
    CASE h.frequencyType = "Everyday" -> TRUE
      [] h.frequencyType = "Anytime" -> TRUE
      [] h.frequencyType = "Some days of the week" ->
            weekdayShort(d) \in h.selectedDays
      [] h.frequencyType = "Numbers of times per period" -> TRUE
      [] h.frequencyType = "Repeats" ->
            IF h.repeatDays <= 1 THEN TRUE
            ELSE LET startDate == h.id
                     daysDiff  == getDaysDifference(startDate, d)
                 IN  remainderIsZero(daysDiff, h.repeatDays)
      [] OTHER -> TRUE

(***************************************************************************)
(* Current streak (App.tsx, HabitRow)                                      *)
(***************************************************************************)
\* for (let daysBack = 0; daysBack < 365; daysBack++)
LookBack == 365

\* mutant: a day that is not scheduled ends the walk
streakStepBreakOnOffDay(h, st, habitCreationDate) ==
    IF st.stopped THEN st
    ELSE IF st.currentDay < habitCreationDate THEN [st EXCEPT !.stopped = TRUE]
    ELSE IF isHabitScheduledOnDay(h, st.currentDay)
            /\ truthy(completedAt(h, formatDate(st.currentDay)))
         THEN [currentDay |-> addDays(st.currentDay, -1),
               streak     |-> st.streak + 1,
               stopped    |-> FALSE]
         ELSE [st EXCEPT !.stopped = TRUE]

\* mutant: only an entry that is false ends the walk, an unmarked day is
\* passed over
streakStepBreakOnFalseOnly(h, st, habitCreationDate) ==
    IF st.stopped THEN st
    ELSE IF st.currentDay < habitCreationDate THEN [st EXCEPT !.stopped = TRUE]
    ELSE LET isScheduled == isHabitScheduledOnDay(h, st.currentDay)
             isCompleted == completedAt(h, formatDate(st.currentDay))
         IN  IF isScheduled /\ isCompleted = "false"
             THEN [st EXCEPT !.stopped = TRUE]
             ELSE [currentDay |-> addDays(st.currentDay, -1),
                   streak     |-> IF isScheduled /\ truthy(isCompleted)
                                  THEN st.streak + 1 ELSE st.streak,
                   stopped    |-> FALSE]

\* One pass of the loop body on the loop's variables; stopped records that
\* a break was taken.
streakStep(h, st, habitCreationDate) ==
    IF st.stopped THEN st
    ELSE IF st.currentDay < habitCreationDate THEN [st EXCEPT !.stopped = TRUE]
    ELSE LET dateString  == formatDate(st.currentDay)
             isScheduled == isHabitScheduledOnDay(h, st.currentDay)
             isCompleted == completedAt(h, dateString)
         IN  IF isScheduled /\ ~truthy(isCompleted)
             THEN [st EXCEPT !.stopped = TRUE]
             ELSE [currentDay |-> addDays(st.currentDay, -1),
                   streak     |-> IF isScheduled THEN st.streak + 1 ELSE st.streak,
                   stopped    |-> FALSE]

\* n passes of the loop body, one after the other (the passes are split in
\* two halves to keep the evaluation shallow)
RECURSIVE streakSteps(_, _, _, _)
streakSteps(h, st, n, habitCreationDate) ==
    IF n = 0 \/ st.stopped THEN st
    ELSE IF n = 1 THEN streakStep(h, st, habitCreationDate)
    ELSE streakSteps(h, streakSteps(h, st, n \div 2, habitCreationDate),
                     n - (n \div 2), habitCreationDate)

\* mutant: the creation date keeps its time of day
calculateStreakCreationNotMidnight(h, t) ==
    streakSteps(h, [currentDay |-> setHoursZero(t), streak |-> 0, stopped |-> FALSE],
                LookBack, h.id).streak

\* mutant: today keeps its time of day
calculateStreakTodayNotMidnight(h, t) ==
    LET habitCreationDate == setHoursZero(h.id)
    IN  streakSteps(h, [currentDay |-> t, streak |-> 0, stopped |-> FALSE],
                    LookBack, habitCreationDate).streak

\* mutant: daysBack <= 365
calculateStreakOneMorePass(h, t) ==
    streakSteps(h, [currentDay |-> setHoursZero(t), streak |-> 0, stopped |-> FALSE],
                LookBack + 1, setHoursZero(h.id)).streak

\* calculateStreak() of the row of habit h, evaluated when the clock reads t
calculateStreak(h, t) ==
    LET today             == setHoursZero(t)
        habitCreationDate == setHoursZero(h.id)
        start             == [currentDay |-> today, streak |-> 0, stopped |-> FALSE]
    IN  streakSteps(h, start, LookBack, habitCreationDate).streak

(***************************************************************************)
(* Habit statistics (AddHabitModal.tsx)                                    *)
(***************************************************************************)
\* the schedule function defined inside calculateHabitStats
statsIsHabitScheduledOnDay(h, d, habitCreationDate) ==
    CASE h.frequencyType = "Everyday" -> TRUE
      [] h.frequencyType = "Some days of the week" ->
            weekdayShort(d) \in h.selectedDays
      [] h.frequencyType = "Numbers of times per period" -> TRUE
      [] h.frequencyType = "Repeats" ->
            IF h.repeatDays <= 1 THEN TRUE
            ELSE LET timeDiff == Abs(d - habitCreationDate)
                     daysDiff == timeDiff \div DAY
                 IN  remainderIsZero(daysDiff, h.repeatDays)
      [] OTHER -> TRUE

\* mutant: a scheduled day that is not completed does not reset currentStreak
statsStepNoReset(h, st, today, habitCreationDate) ==
    IF ~(st.currentDay <= today) THEN st
    ELSE LET isScheduled == statsIsHabitScheduledOnDay(h, st.currentDay, habitCreationDate)
             isCompleted == completedAt(h, formatDate(st.currentDay))
             streak1     == IF isScheduled /\ truthy(isCompleted)
                            THEN st.currentStreak + 1 ELSE st.currentStreak
         IN  [currentDay    |-> addDays(st.currentDay, 1),
              currentStreak |-> streak1,
              highestStreak |-> Max({st.highestStreak, streak1})]

\* mutant: a day counts as completed when it has an entry, whatever its value
statsStepAnyEntry(h, st, today, habitCreationDate) ==
    IF ~(st.currentDay <= today) THEN st
    ELSE LET isScheduled == statsIsHabitScheduledOnDay(h, st.currentDay, habitCreationDate)
             isCompleted == completedAt(h, formatDate(st.currentDay)) # Undefined
             streak1     == IF ~isScheduled THEN st.currentStreak
                            ELSE IF isCompleted THEN st.currentStreak + 1
                            ELSE 0
             highest1    == IF isScheduled /\ isCompleted
                            THEN Max({st.highestStreak, streak1})
                            ELSE st.highestStreak
         IN  [currentDay    |-> addDays(st.currentDay, 1),
              currentStreak |-> streak1,
              highestStreak |-> highest1]

\* One pass of the while loop on the loop's variables (no change once
\* currentDay <= today fails).
statsStep(h, st, today, habitCreationDate) ==
    IF ~(st.currentDay <= today) THEN st
    ELSE LET dateString  == formatDate(st.currentDay)
             isScheduled == statsIsHabitScheduledOnDay(h, st.currentDay, habitCreationDate)
             isCompleted == completedAt(h, dateString)
             streak1     == IF ~isScheduled THEN st.currentStreak
                            ELSE IF truthy(isCompleted) THEN st.currentStreak + 1
                            ELSE 0
             highest1    == IF isScheduled /\ truthy(isCompleted)
                            THEN Max({st.highestStreak, streak1})
                            ELSE st.highestStreak
         IN  [currentDay    |-> addDays(st.currentDay, 1),
              currentStreak |-> streak1,
              highestStreak |-> highest1]

RECURSIVE statsSteps(_, _, _, _, _)
statsSteps(h, st, n, today, habitCreationDate) ==
    IF n = 0 \/ ~(st.currentDay <= today) THEN st
    ELSE IF n = 1 THEN statsStep(h, st, today, habitCreationDate)
    ELSE statsSteps(h, statsSteps(h, st, n \div 2, today, habitCreationDate),
                    n - (n \div 2), today, habitCreationDate)

\* mutant: only the entries of due days from the creation day to today count
calculateHabitStatsDueInRange(h, t) ==
    IF h = None \/ "completed" \notin DOMAIN h
    THEN [totalCompletions |-> 0, highestStreak |-> 0]
    ELSE
    LET today             == setHoursZero(t)
        habitCreationDate == setHoursZero(h.id)
        start             == [currentDay    |-> habitCreationDate,
                              currentStreak |-> 0,
                              highestStreak |-> 0]
        passes            == IF habitCreationDate <= today
                             THEN ((today - habitCreationDate) \div DAY) + 1
                             ELSE 0
    IN  [totalCompletions |->
            Cardinality({k \in DOMAIN h.completed :
                /\ truthy(h.completed[k])
                /\ habitCreationDate <= keyDate(k) /\ keyDate(k) <= today
                /\ statsIsHabitScheduledOnDay(h, keyDate(k), habitCreationDate)}),
         highestStreak    |->
            statsSteps(h, start, passes, today, habitCreationDate).highestStreak]

\* calculateHabitStats(habit), evaluated when the clock reads t; the while
\* loop ends after at most one pass for each day from the creation day to today
calculateHabitStats(h, t) ==
    IF h = None \/ "completed" \notin DOMAIN h
    THEN [totalCompletions |-> 0, highestStreak |-> 0]
    ELSE
    LET totalCompletions  ==
            Cardinality({k \in DOMAIN h.completed : truthy(h.completed[k])})
        today             == setHoursZero(t)
        habitCreationDate == setHoursZero(h.id)
        start             == [currentDay    |-> habitCreationDate,
                              currentStreak |-> 0,
                              highestStreak |-> 0]
        passes            == IF habitCreationDate <= today
                             THEN ((today - habitCreationDate) \div DAY) + 1
                             ELSE 0
    IN  [totalCompletions |-> totalCompletions,
         highestStreak    |->
            statsSteps(h, start, passes, today, habitCreationDate).highestStreak]

(***************************************************************************)
(* The calls of the engine: the inputs the model draws                     *)
(***************************************************************************)
\* Monday 2024-01-01, 00:00
D0 == daysFromCivil(2024, 1, 1) * DAY

NOON == 12 * 60 * 60

\* the times of day a time stamp is drawn from
TimesOfDay == {0, NOON, DAY - 1}

\* dates run from 2 days before D0 to MaxDayOffset days after it
MaxDayOffset == 7

\* repeatDays runs from -2 to MaxRepeatDays
MaxRepeatDays == 3

NoCall == "none"

\* interface Habit, with the display fields held fixed
mkHabit(id, frequencyType, selectedDays, goal, repeatDays, completed) ==
    [id |-> id, name |-> "h", description |-> "", color |-> "green",
     type |-> "Habit", categories |-> <<>>,
     frequencyType |-> frequencyType, selectedDays |-> selectedDays,
     timesPerPeriod |-> goal[1], periodUnit |-> goal[2],
     repeatDays |-> repeatDays, completed |-> completed, order |-> 0]

WeekDays == {"Mon", "Tue", "Wed", "Thu", "Fri", "Sat", "Sun"}

FrequencyTypes ==
    {"Everyday", "Anytime", "Some days of the week",
     "Numbers of times per period", "Repeats", "Weekly"}

\* the completed map with "true" on the days D0 + k, k in trueDays, and
\* value v on the days D0 + k, k in otherDays
history(trueDays, otherDays, v) ==
    LET otherKeys == {formatDate(addDays(D0, k)) : k \in otherDays}
    IN  [key \in {formatDate(addDays(D0, k)) : k \in trueDays} \cup otherKeys |->
            IF key \in otherKeys THEN v ELSE "true"]

ScheduleHabits ==
    {mkHabit(D0 + tod, ft, sd, goal, rd, c) :
        tod \in TimesOfDay, ft \in FrequencyTypes,
        sd \in {{}, {"Mon", "Wed"}, WeekDays},
        goal \in {<<1, "Week">>, <<3, "Month">>},
        rd \in -2 .. MaxRepeatDays,
        c \in {history({}, {}, Null), history({0}, {1}, "false")}}

ScheduleDates ==
    {addDays(D0, k) + tod : k \in -2 .. MaxDayOffset, tod \in TimesOfDay}

\* the useState initial values of the form of AddHabitModal
FormDefaults ==
    [habitName |-> "", habitDescription |-> "", selectedColor |-> "green",
     habitType |-> "Habit", frequencyType |-> "Everyday",
     selectedCategories |-> <<>>, selectedDays |-> {},
     timesPerPeriod |-> 1, periodUnit |-> "Week", repeatDays |-> 1]

\* the category storage is not looked at
StorageIdle ==
    /\ localStorage = None
    /\ allCategoriesMap = None

\* the calendar is not looked at
ViewIdle ==
    /\ currentDate = D0 + NOON
    /\ viewMode = "week"

AppIdle ==
    /\ habits = <<>>
    /\ draggedHabitId = None
    /\ showAddHabitModal = FALSE
    /\ selectedHabitToEdit = None
    /\ form = FormDefaults
    /\ steps = 0
    /\ StorageIdle
    /\ ViewIdle

ScheduleInit ==
    /\ AppIdle
    /\ now = D0
    /\ habit \in ScheduleHabits
    /\ date \in ScheduleDates
    /\ call = NoCall
    /\ result = Null

\* a caller evaluates isHabitScheduledOnDay(habit, date)
CallIsHabitScheduledOnDay ==
    /\ call = NoCall
    /\ call' = "isHabitScheduledOnDay"
    /\ result' = isHabitScheduledOnDay(habit, date)
    /\ UNCHANGED <<appVars, now, habit, date, storageVars, viewVars>>

ScheduleNext == CallIsHabitScheduledOnDay

SpecSchedule == ScheduleInit /\ [][ScheduleNext]_vars

\* the small histories give every value to each of the MaxWindow days from D0
MaxWindow == 3

\* the long histories end LongSpan days after D0, beyond the look-back
LongSpan == LookBack + 5

WindowHistories ==
    UNION {[{formatDate(addDays(D0, k)) : k \in S} -> {"true", "false", "null"}] :
            S \in SUBSET (0 .. MaxWindow - 1)}

\* true on D0, D0+1, D0+2 and false on D0+3
ThreeDaysThenMiss == history(0 .. 2, {3}, "false")

\* true on the Mondays and Wednesdays of three weeks
MonWedThreeWeeks == history({0, 2, 7, 9, 14, 16}, {}, Null)

\* a run of 4 days and a run of 7 days, one missed day between them
RunsOfFourAndSeven ==
    {history((0 .. 3) \cup (5 .. 11), {}, Null),
     history((0 .. 3) \cup (5 .. 11), {4}, "false"),
     history((0 .. 3) \cup (5 .. 11), {4}, "null")}

NamedHistories == {ThreeDaysThenMiss, MonWedThreeWeeks} \cup RunsOfFourAndSeven

\* true on every day from D0 - 2 to D0 + LongSpan
EveryDayDone == history(-2 .. LongSpan, {}, Null)

LongHistories ==
    {EveryDayDone,
     history((-2 .. LongSpan) \ {3}, {3}, "false"),
     history((-2 .. LongSpan) \ {200}, {}, Null)}

\* frequencyType, selectedDays, repeatDays
StreakSchedules ==
    {<<"Everyday", {}, 1>>, <<"Weekly", {}, 1>>,
     <<"Some days of the week", {"Mon", "Wed"}, 1>>,
     <<"Some days of the week", WeekDays, 1>>}
    \cup {<<"Repeats", {}, n>> : n \in 1 .. MaxRepeatDays}

streakHabits(ids, histories) ==
    {mkHabit(id, f[1], f[2], <<1, "Week">>, f[3], c) :
        id \in ids, f \in StreakSchedules, c \in histories}

clockReadings(offsets) == {addDays(D0, k) + tod : k \in offsets, tod \in {0, NOON}}

StreakInit ==
    /\ AppIdle
    /\ date = Null
    /\ call = NoCall
    /\ result = Null
    /\ \/ /\ habit \in streakHabits({D0, D0 + NOON, D0 + DAY}, WindowHistories)
          /\ now \in clockReadings(0 .. MaxWindow)
       \/ /\ habit \in streakHabits({D0 - 3 * DAY + NOON, D0, D0 + NOON, D0 + DAY},
                                    NamedHistories)
          /\ now \in clockReadings({2, 3, 6, 11, 16})
       \/ /\ habit \in {mkHabit(id, f[1], f[2], <<1, "Week">>, f[3], c) :
                        id \in {D0, D0 + NOON}, c \in LongHistories,
                        f \in {<<"Everyday", {}, 1>>, <<"Repeats", {}, 2>>,
                               <<"Some days of the week", {"Mon", "Wed"}, 1>>}}
          /\ now \in {addDays(D0, k) : k \in {LookBack - 1, LookBack, LongSpan}}

\* a HabitRow of habit is rendered: calculateStreak()
CallCalculateStreak ==
    /\ call = NoCall
    /\ call' = "calculateStreak"
    /\ result' = calculateStreak(habit, now)
    /\ UNCHANGED <<appVars, now, habit, date, storageVars, viewVars>>

\* the modal is rendered for habit: calculateHabitStats(habitToEdit)
CallCalculateHabitStats ==
    /\ call = NoCall
    /\ call' = "calculateHabitStats"
    /\ result' = calculateHabitStats(habit, now)
    /\ UNCHANGED <<appVars, now, habit, date, storageVars, viewVars>>

StreakNext == CallCalculateStreak \/ CallCalculateHabitStats

SpecStreak == StreakInit /\ [][StreakNext]_vars

(***************************************************************************)
(* The calendar overlays (App.tsx): the cells of MonthView and the months  *)
(* of YearView.  A JavaScript number that is a quotient of two counts is   *)
(* the pair <<numerator, denominator>> in lowest terms; NaN is <<>>.       *)
(***************************************************************************)
RECURSIVE gcd(_, _)
gcd(a, b) == IF b = 0 THEN a ELSE gcd(b, a % b)

Zero == <<0, 1>>

Infinity == <<1, 0>>

\* a / b on two counts
jsDivide(a, b) ==
    IF b = 0 THEN (IF a = 0 THEN NaN ELSE Infinity)
    ELSE <<a \div gcd(a, b), b \div gcd(a, b)>>

\* date.getFullYear()
getFullYear(d) == formatDate(d)[1]

\* date.getMonth(), counted from 0
getMonth(d) == formatDate(d)[2] - 1

\* date.getDate()
getDate(d) == formatDate(d)[3]

\* new Date(year, month, day): a month beyond 11 runs into the next year and
\* day 0 is the last day of the month before
newDate(year, month, day) ==
    (daysFromCivil(year + (month \div 12), (month % 12) + 1, 1) + day - 1) * DAY

\* mutant: the quotient is taken whatever scheduledHabits.length is
cellCompletionRateUnguarded(completedHabits, scheduledHabits) ==
    jsDivide(Len(completedHabits), Len(scheduledHabits))

\* completionRate of a cell of MonthView
cellCompletionRate(completedHabits, scheduledHabits) ==
    IF Len(scheduledHabits) > 0
    THEN jsDivide(Len(completedHabits), Len(scheduledHabits))
    ELSE Zero

\* the completion status MonthView computes for the cell of date
monthCell(hs, d) ==
    LET dateString == formatDate(d)
        isCompletedOn(h) ==
            isHabitScheduledOnDay(h, d) /\ truthy(completedAt(h, dateString))
        isScheduledOn(h) == isHabitScheduledOnDay(h, d)
        completedHabits == SelectSeq(hs, isCompletedOn)
        scheduledHabits == SelectSeq(hs, isScheduledOn)
    IN  [completedHabits |-> Len(completedHabits),
         scheduledHabits |-> Len(scheduledHabits),
         completionRate  |-> cellCompletionRate(completedHabits, scheduledHabits)]

\* mutant: an entry that is present counts as completed
forEachHabitAnyEntry(hs, i, d, dateString, acc) ==
    LET isScheduled == isHabitScheduledOnDay(hs[i], d)
    IN  IF ~isScheduled THEN acc
        ELSE [totalScheduledDays |-> acc.totalScheduledDays + 1,
              completedDays |->
                 IF completedAt(hs[i], dateString) # Undefined
                 THEN acc.completedDays + 1 ELSE acc.completedDays]

\* the body of habits.forEach in getMonthStats, for the habit at index i
forEachHabit(hs, i, d, dateString, acc) ==
    LET isScheduled == isHabitScheduledOnDay(hs[i], d)
    IN  IF ~isScheduled THEN acc
        ELSE [totalScheduledDays |-> acc.totalScheduledDays + 1,
              completedDays |->
                 IF truthy(completedAt(hs[i], dateString))
                 THEN acc.completedDays + 1 ELSE acc.completedDays]

\* habits.forEach from index i on
RECURSIVE forEachHabits(_, _, _, _, _)
forEachHabits(hs, i, d, dateString, acc) ==
    IF i > Len(hs) THEN acc
    ELSE forEachHabits(hs, i + 1, d, dateString,
                       forEachHabit(hs, i, d, dateString, acc))

\* one pass of for (let day = 1; day <= daysInMonth; day++) on the loop's
\* variables (no change once day <= daysInMonth fails)
monthStep(hs, year, month, st, daysInMonth) ==
    IF ~(st.day <= daysInMonth) THEN st
    ELSE LET d          == newDate(year, month, st.day)
             dateString == formatDate(d)
             counted    == forEachHabits(hs, 1, d, dateString,
                              [totalScheduledDays |-> st.totalScheduledDays,
                               completedDays      |-> st.completedDays])
         IN  [day                |-> st.day + 1,
              totalScheduledDays |-> counted.totalScheduledDays,
              completedDays      |-> counted.completedDays]

\* n passes of the loop
RECURSIVE monthSteps(_, _, _, _, _, _)
monthSteps(hs, year, month, st, n, daysInMonth) ==
    IF n = 0 \/ ~(st.day <= daysInMonth) THEN st
    ELSE IF n = 1 THEN monthStep(hs, year, month, st, daysInMonth)
    ELSE monthSteps(hs, year, month,
                    monthSteps(hs, year, month, st, n \div 2, daysInMonth),
                    n - (n \div 2), daysInMonth)

\* getMonthStats(monthDate) of YearView on the habits hs; the loop ends after
\* daysInMonth passes
getMonthStats(hs, monthDate) ==
    LET year        == getFullYear(monthDate)
        month       == getMonth(monthDate)
        daysInMonth == getDate(newDate(year, month + 1, 0))
        last        == monthSteps(hs, year, month,
                          [day |-> 1, totalScheduledDays |-> 0, completedDays |-> 0],
                          daysInMonth, daysInMonth)
    IN  [totalScheduledDays |-> last.totalScheduledDays,
         completedDays      |-> last.completedDays]

\* completionRate of a month of YearView
monthCompletionRate(stats) ==
    IF stats.totalScheduledDays > 0
    THEN jsDivide(stats.completedDays, stats.totalScheduledDays)
    ELSE Zero

\* frequencyType, selectedDays, repeatDays of the habits of the overlays
OverlaySchedules ==
    {<<"Everyday", {}, 1>>,
     <<"Some days of the week", {"Mon", "Wed"}, 1>>,
     <<"Some days of the week", {}, 1>>,
     <<"Repeats", {}, 3>>}

\* entries in January and February 2024: D0 + 30 is January 31, D0 + 31 is
\* February 1 and D0 + 59 is February 29
OverlayHistories ==
    {history({0, 2, 30}, {1}, "false"), history({31, 59}, {3}, "null")}

OverlayHabits ==
    {mkHabit(id, f[1], f[2], <<1, "Week">>, f[3], c) :
        id \in {D0, D0 - 40 * DAY + NOON}, f \in OverlaySchedules,
        c \in OverlayHistories}

\* the habit lists the overlays are drawn for: none, one or two habits, and
\* three habits of the same creation time
OverlayLists ==
    {<<>>}
    \cup {<<h>> : h \in OverlayHabits}
    \cup {<<h1, h2>> : h1 \in OverlayHabits, h2 \in OverlayHabits}
    \cup {<<h1, h2, h3>> : h1, h2, h3 \in {h \in OverlayHabits :
                h.id = D0 /\ h.completed = history({0, 2, 30}, {1}, "false")}}

\* the first days of December 2023, February 2023 and February 2024
MonthStarts == {newDate(2023, 11, 1), newDate(2023, 1, 1), newDate(2024, 1, 1)}

\* the dates of the cells, at midnight, and the months
OverlayDates == {addDays(D0, k) : k \in -1 .. MaxDayOffset} \cup MonthStarts

\* true on days before the creation day D0 + 2, on days that are not due for
\* Mon/Wed or every third day, and on a day after today
OutOfRangeHistory == history({0, 1, 3, 4, 9}, {2}, "false")

\* the habits the modal shows statistics for; habitToEdit may be null and
\* its completed map may be missing
StatsHabits ==
    {mkHabit(id, f[1], f[2], <<1, "Week">>, f[3], c) :
        id \in {D0, D0 + 2 * DAY + NOON}, f \in OverlaySchedules,
        c \in WindowHistories \cup {OutOfRangeHistory}}
    \cup {None, [id |-> D0, name |-> "h", frequencyType |-> "Everyday"]}

AggregateInit ==
    /\ draggedHabitId = None
    /\ showAddHabitModal = FALSE
    /\ selectedHabitToEdit = None
    /\ form = FormDefaults
    /\ steps = 0
    /\ StorageIdle
    /\ ViewIdle
    /\ call = NoCall
    /\ result = Null
    /\ \/ /\ habits \in OverlayLists
          /\ date \in OverlayDates
          /\ habit = None
          /\ now = D0
       \/ /\ habits = <<>>
          /\ date = D0
          /\ habit \in StatsHabits
          /\ now \in {D0 + DAY + NOON, D0 + 5 * DAY}

\* MonthView renders the cell of date
CallMonthCell ==
    /\ call = NoCall
    /\ call' = "monthCell"
    /\ result' = monthCell(habits, date)
    /\ UNCHANGED <<appVars, now, habit, date, storageVars, viewVars>>

\* mutant: the loop moves monthDate itself from day to day
CallGetMonthStatsMovingMonthDate ==
    /\ call = NoCall
    /\ getDate(date) = 1
    /\ call' = "getMonthStats"
    /\ result' = LET stats == getMonthStats(habits, date)
                 IN  [totalScheduledDays |-> stats.totalScheduledDays,
                      completedDays      |-> stats.completedDays,
                      completionRate     |-> monthCompletionRate(stats)]
    /\ date' = newDate(getFullYear(date), getMonth(date) + 1, 0)
    /\ UNCHANGED <<appVars, now, habit, storageVars, viewVars>>

\* YearView renders the month that starts at date
CallGetMonthStats ==
    /\ call = NoCall
    /\ getDate(date) = 1
    /\ call' = "getMonthStats"
    /\ result' = LET stats == getMonthStats(habits, date)
                 IN  [totalScheduledDays |-> stats.totalScheduledDays,
                      completedDays      |-> stats.completedDays,
                      completionRate     |-> monthCompletionRate(stats)]
    /\ UNCHANGED <<appVars, now, habit, date, storageVars, viewVars>>

\* a row of the week view is rendered for habit, which is a Habit
RowRendered == habit # None /\ "completed" \in DOMAIN habit

AggregateNext ==
    \/ CallMonthCell
    \/ CallGetMonthStats
    \/ CallCalculateHabitStats
    \/ RowRendered /\ CallCalculateStreak
    \/ RowRendered /\ CallIsHabitScheduledOnDay

SpecAggregate == AggregateInit /\ [][AggregateNext]_vars

(***************************************************************************)
(* Claims about the schedule                                               *)
(***************************************************************************)
\* the number of the calendar day of a time stamp
dayOf(d) == d \div DAY

\* whole calendar days between two time stamps, both taken at midnight
calendarDaysBetween(d1, d2) == Abs(dayOf(d2) - dayOf(d1))

\* the weekday name of a date, counted from Monday 2024-01-01
weekdayFromD0(d) ==
    <<"Mon", "Tue", "Wed", "Thu", "Fri", "Sat", "Sun">>
        [((dayOf(d) - dayOf(D0)) % 7) + 1]

Scheduled == call = "isHabitScheduledOnDay"

\* C1: a 'Repeats' habit with repeatDays = n > 1 is due exactly on the dates
\* whose calendar day lies a multiple of n days from the creation day,
\* whatever the times of day of habit.id and of the date
C1_RepeatsEveryNthCalendarDay ==
    (Scheduled /\ habit.frequencyType = "Repeats" /\ habit.repeatDays > 1)
        => (result <=> (calendarDaysBetween(habit.id, date) % habit.repeatDays = 0))

\* C7: a 'Some days of the week' habit is due exactly on the dates whose
\* weekday name is in selectedDays: with {Mon, Wed} on Mondays and Wednesdays
\* only, with no selected day never
C7_SomeDaysOfTheWeek ==
    (Scheduled /\ habit.frequencyType = "Some days of the week")
        => /\ result <=> (weekdayFromD0(date) \in habit.selectedDays)
           /\ habit.selectedDays = {"Mon", "Wed"}
                => (result <=> (dayOf(date) - dayOf(D0)) % 7 \in {0, 2})
           /\ habit.selectedDays = {} => ~result

C7_Witness ==
    /\ Scheduled
    /\ habit.frequencyType = "Some days of the week"
    /\ habit.selectedDays = {"Mon", "Wed"}
    /\ dayOf(date) = dayOf(D0) + 2
    /\ result = TRUE

\* C8: every date is due when frequencyType is 'Everyday', 'Anytime',
\* 'Numbers of times per period' or not one of the five recognised values,
\* whatever the other fields of the habit are
C8_AlwaysDueTypes ==
    (Scheduled /\ habit.frequencyType \notin {"Some days of the week", "Repeats"})
        => result = TRUE

C8_Witness ==
    /\ Scheduled
    /\ habit.frequencyType = "Weekly"
    /\ habit.selectedDays = {}
    /\ habit.repeatDays = 3
    /\ dayOf(date) = dayOf(D0) + 1
    /\ result = TRUE

\* C9: a 'Repeats' habit with repeatDays <= 1 (0 and negative values
\* included) is due on every date
C9_RepeatsAtMostOne ==
    (Scheduled /\ habit.frequencyType = "Repeats" /\ habit.repeatDays <= 1)
        => result = TRUE

C9_Witness ==
    /\ Scheduled
    /\ habit.frequencyType = "Repeats"
    /\ habit.repeatDays = -2
    /\ dayOf(date) = dayOf(D0) + 1
    /\ result = TRUE

(***************************************************************************)
(* Claims about the current streak                                         *)
(***************************************************************************)
Streaked == call = "calculateStreak"

\* the completed entry of the calendar day numbered n is true
doneOn(h, n) == completedAt(h, civilFromDays(n)) = "true"

\* every day is due, whatever the date
allDaysDue(h) ==
    \/ h.frequencyType \notin {"Some days of the week", "Repeats"}
    \/ h.frequencyType = "Some days of the week" /\ h.selectedDays = WeekDays
    \/ h.frequencyType = "Repeats" /\ h.repeatDays <= 1

\* the length of the longest run of days ending at the day of t, all of them
\* completed and none before the creation day, cut at 365 days
runEndingAt(h, t) ==
    LET inRun(j) == dayOf(t) - j >= dayOf(h.id) /\ doneOn(h, dayOf(t) - j)
    IN  CHOOSE k \in 0 .. 365 :
            /\ k = 365 \/ ~inRun(k)
            /\ \A j \in 0 .. k - 1 : inRun(j)

\* C2: when every day is due, the streak at asOf is the length of the run of
\* completed days that ends at asOf; true on D0, D0+1, D0+2 and false on D0+3
\* gives 0 at D0+3 and 3 at D0+2
C2_StreakIsRunEndingAtAsOf ==
    (Streaked /\ allDaysDue(habit))
        => /\ result = runEndingAt(habit, now)
           /\ (habit.completed = ThreeDaysThenMiss
                    /\ dayOf(habit.id) <= dayOf(D0))
                => /\ dayOf(now) = dayOf(D0) + 3 => result = 0
                   /\ dayOf(now) = dayOf(D0) + 2 => result = 3

C2_Witness ==
    /\ Streaked
    /\ habit.frequencyType = "Everyday"
    /\ habit.id = D0 + NOON
    /\ habit.completed = ThreeDaysThenMiss
    /\ now = addDays(D0, 2) + NOON
    /\ result = 3

\* the days the walk from the day of t may visit: at most 365, none before
\* the creation day
walkDays(h, t) ==
    {n \in dayOf(t) - 364 .. dayOf(t) : n >= dayOf(h.id)}

\* the number of due days of the walk after its latest due day that is not
\* completed
dueDaysAfterLastMiss(h, t) ==
    LET due    == {n \in walkDays(h, t) : isHabitScheduledOnDay(h, n * DAY)}
        misses == {n \in due : ~doneOn(h, n)}
        after  == IF misses = {} THEN due ELSE {n \in due : n > Max(misses)}
    IN  Cardinality(after)

\* C3: days that are not due neither end nor extend the streak; a Mon/Wed
\* habit completed on the Mondays and Wednesdays of three weeks has streak 6
\* at the third Wednesday
C3_StreakSkipsOffDays ==
    Streaked
        => /\ result = dueDaysAfterLastMiss(habit, now)
           /\ (/\ habit.frequencyType = "Some days of the week"
               /\ habit.selectedDays = {"Mon", "Wed"}
               /\ habit.completed = MonWedThreeWeeks
               /\ dayOf(habit.id) <= dayOf(D0)
               /\ dayOf(now) = dayOf(D0) + 16)
                => result = 6

C3_Witness ==
    /\ Streaked
    /\ habit.frequencyType = "Some days of the week"
    /\ habit.selectedDays = {"Mon", "Wed"}
    /\ habit.completed = MonWedThreeWeeks
    /\ habit.id = D0 - 3 * DAY + NOON
    /\ dayOf(now) = dayOf(D0) + 16
    /\ result = 6

\* habit h with the entry of calendar day n set to v (removed for Undefined)
withEntry(h, n, v) ==
    LET key  == civilFromDays(n)
        keys == IF v = Undefined THEN DOMAIN h.completed \ {key}
                ELSE DOMAIN h.completed \cup {key}
    IN  [h EXCEPT !.completed =
            [k \in keys |-> IF k = key THEN v ELSE h.completed[k]]]

\* C5: the walk visits at most 365 days and no day before the creation day:
\* the streak is at most 365 and at most the number of days from the creation
\* day to asOf, and entries before the creation day or more than 364 days
\* before asOf do not change it
C5_WalkIsBounded ==
    Streaked
        => /\ result <= 365
           /\ result <= Max({0, dayOf(now) - dayOf(habit.id) + 1})
           /\ \A n \in {dayOf(habit.id) - 2, dayOf(habit.id) - 1,
                         dayOf(now) - 366, dayOf(now) - 365} :
              \A v \in {"true", "false", "null", Undefined} :
                 calculateStreak(withEntry(habit, n, v), now) = result

C5_Witness ==
    /\ Streaked
    /\ habit.frequencyType = "Everyday"
    /\ dayOf(habit.id) = dayOf(D0)
    /\ dayOf(now) = dayOf(D0) + LongSpan
    /\ habit.completed = EveryDayDone
    /\ result = 365

\* habit h with value v on every due day whose entry is not true, among the
\* days of its entries and the days from back days before t to t
withIncomplete(h, t, back, v) ==
    LET entryDays == {keyDate(k) \div DAY : k \in DOMAIN h.completed}
        days   == entryDays \cup (dayOf(t) - back .. dayOf(t))
        missed == {civilFromDays(n) : n \in
                      {m \in days : isHabitScheduledOnDay(h, m * DAY) /\ ~doneOn(h, m)}}
        keys   == IF v = Undefined THEN DOMAIN h.completed \ missed
                  ELSE DOMAIN h.completed \cup missed
    IN  [h EXCEPT !.completed =
            [k \in keys |-> IF k \in missed THEN v ELSE h.completed[k]]]

\* C6: false, null and a missing entry end the walk alike: the streak is the
\* same whichever of them the incomplete due days hold, and it is 0 when
\* asOf is due and not true
C6_IncompleteValuesAlike ==
    Streaked
        => /\ \A v \in {"false", "null", Undefined} :
                calculateStreak(withIncomplete(habit, now, MaxWindow, v), now) = result
           /\ (isHabitScheduledOnDay(habit, setHoursZero(now))
                    /\ ~doneOn(habit, dayOf(now)))
                => result = 0

C6_Witness ==
    /\ Streaked
    /\ habit.frequencyType = "Everyday"
    /\ habit.completed = ThreeDaysThenMiss
    /\ dayOf(habit.id) = dayOf(D0)
    /\ dayOf(now) = dayOf(D0) + 3
    /\ result = 0

\* the clock readings of the calendar day of t
sameDayReadings(t) == {setHoursZero(t) + tod : tod \in TimesOfDay}

Counted == call = "calculateHabitStats"

\* the schedule rule on calendar days: is habit h due on the day numbered n
dueOnDay(h, n) ==
    CASE h.frequencyType = "Some days of the week" ->
            weekdayFromD0(n * DAY) \in h.selectedDays
      [] h.frequencyType = "Repeats" /\ h.repeatDays > 1 ->
            Abs(n - dayOf(h.id)) % h.repeatDays = 0
      [] OTHER -> TRUE

\* the greatest number of due days in a stretch of the days from the creation
\* day to the day of t that holds no due day that is not completed
longestRun(h, t) ==
    LET first  == dayOf(h.id)
        last   == dayOf(t)
        due    == {n \in first .. last : dueOnDay(h, n)}
        misses == {n \in due : ~doneOn(h, n)}
        starts == {first} \cup {n + 1 : n \in misses}
        upTo(a) == Min({n \in misses : n >= a} \cup {last + 1}) - 1
    IN  IF first > last THEN 0
        ELSE Max({Cardinality({n \in due : a <= n /\ n <= upTo(a)}) : a \in starts})

\* C4: highestStreak is the length of the longest run of consecutive due days
\* that are completed, from the creation day to today; days that are not due
\* neither extend nor end a run; runs of 4 and 7 give 7
C4_HighestStreakIsLongestRun ==
    Counted
        => /\ result.highestStreak = longestRun(habit, now)
           /\ (/\ habit.completed \in RunsOfFourAndSeven
               /\ allDaysDue(habit)
               /\ dayOf(habit.id) <= dayOf(D0)
               /\ dayOf(now) >= dayOf(D0) + 11)
                => result.highestStreak = 7

C4_Witness ==
    /\ Counted
    /\ habit.frequencyType = "Everyday"
    /\ habit.id = D0 + NOON
    /\ dayOf(now) = dayOf(D0) + 16
    /\ habit.completed \in RunsOfFourAndSeven
    /\ completedAt(habit, formatDate(addDays(D0, 4))) = "null"
    /\ result.highestStreak = 7

(***************************************************************************)
(* Claims about the calendar overlays and the lifetime count.  A habit is  *)
(* taken as due on a day when isHabitScheduledOnDay says so for the day's  *)
(* midnight, the date the overlays pass.                                   *)
(***************************************************************************)
CellDrawn == call = "monthCell"

\* the indices of the habits of hs that are due on date d
dueIndices(hs, d) == {i \in 1 .. Len(hs) : isHabitScheduledOnDay(hs[i], d)}

\* the number r is the quotient of the counts c and s, and 0 when s is 0
isQuotient(r, c, s) ==
    /\ r # NaN
    /\ s = 0 => r = Zero
    /\ s > 0 => r[2] > 0 /\ r[1] * s = c * r[2]

\* C13: the completion ratio of a month cell is the number of due habits
\* whose entry for the date is true divided by the number of due habits, and
\* exactly 0, never NaN, when no habit is due or the list is empty
C13_CellRatio ==
    CellDrawn
        => LET due  == dueIndices(habits, date)
               done == {i \in due : doneOn(habits[i], dayOf(date))}
           IN  /\ result.scheduledHabits = Cardinality(due)
               /\ result.completedHabits = Cardinality(done)
               /\ isQuotient(result.completionRate,
                             Cardinality(done), Cardinality(due))

C13_Witness ==
    /\ CellDrawn
    /\ Len(habits) = 2
    /\ habits[1].frequencyType = "Some days of the week"
    /\ habits[2].frequencyType = "Repeats"
    /\ result.scheduledHabits = 0
    /\ result.completionRate = Zero

MonthDrawn == call = "getMonthStats"

\* the numbers of the calendar days of the month that starts at d
monthDayNumbers(d) ==
    {n \in dayOf(d) .. dayOf(d) + 30 :
        /\ civilFromDays(n)[1] = civilFromDays(dayOf(d))[1]
        /\ civilFromDays(n)[2] = civilFromDays(dayOf(d))[2]}

\* the pairs of a habit of hs and a day of the month of d on which it is due
duePairs(hs, d) ==
    {p \in (1 .. Len(hs)) \X monthDayNumbers(d) :
        isHabitScheduledOnDay(hs[p[1]], p[2] * DAY)}

\* C14: getMonthStats counts in totalScheduledDays the pairs of a habit and a
\* day of the month on which the habit is due, and in completedDays those
\* whose entry is true; the rate is their quotient, 0 when nothing is due
C14_MonthStats ==
    MonthDrawn
        => LET due  == duePairs(habits, date)
               done == {p \in due : doneOn(habits[p[1]], p[2])}
           IN  /\ result.totalScheduledDays = Cardinality(due)
               /\ result.completedDays = Cardinality(done)
               /\ isQuotient(result.completionRate,
                             Cardinality(done), Cardinality(due))

C14_Witness ==
    /\ MonthDrawn
    /\ date = newDate(2024, 1, 1)
    /\ Len(habits) = 1
    /\ habits[1].frequencyType = "Everyday"
    /\ result.totalScheduledDays = 29
    /\ result.completedDays = 2
    /\ result.completionRate = <<2, 29>>

\* the habit or its completed map is missing
missing(h) == h = None \/ "completed" \notin DOMAIN h

\* C15: totalCompletions is the number of entries that are true, whether
\* or not the habit is due on their date and whether or not the date lies
\* between the creation day and today; false and null entries do not count;
\* a missing habit or completed map gives 0 and 0
C15_TotalCompletions ==
    Counted
        => IF missing(habit)
           THEN result = [totalCompletions |-> 0, highestStreak |-> 0]
           ELSE /\ result.totalCompletions =
                      Cardinality(DOMAIN habit.completed)
                      - Cardinality({k \in DOMAIN habit.completed :
                            habit.completed[k] \in {"false", "null"}})
                /\ \A n \in dayOf(D0) - 1 .. dayOf(D0) + 10 :
                   \A v \in {"true", "false", "null", Undefined} :
                      calculateHabitStats(withEntry(habit, n, v), now).totalCompletions
                        = result.totalCompletions
                          + (IF v = "true" THEN 1 ELSE 0)
                          - (IF doneOn(habit, n) THEN 1 ELSE 0)

C15_Witness ==
    /\ Counted
    /\ ~missing(habit)
    /\ habit.frequencyType = "Some days of the week"
    /\ habit.selectedDays = {"Mon", "Wed"}
    /\ habit.id = D0 + 2 * DAY + NOON
    /\ habit.completed = OutOfRangeHistory
    /\ now = D0 + 5 * DAY
    /\ result.totalCompletions = 5

\* C17: evaluating the schedule, the streak, a month cell, a month or the
\* habit statistics changes no habit of the list, not the habit it is called
\* with (its completed map included) and not the date passed in
C17_EngineOnlyReads ==
    [][call' # call
          => /\ habits' = habits
             /\ habit' = habit
             /\ date' = date]_vars

C17_Witness ==
    /\ MonthDrawn
    /\ date = newDate(2024, 1, 1)
    /\ Len(habits) = 2
    /\ habits[1].completed = history({31, 59}, {3}, "null")
    /\ result.completedDays > 0

(***************************************************************************)
(* The habit list of App (App.tsx) and the modal's buttons                 *)
(* (AddHabitModal.tsx)                                                     *)
(***************************************************************************)
\* useState<Habit[]>([...]): the three habits App starts with
InitialHabits ==
    <<[id |-> 1, name |-> "Non-Negotiable: Open App",
       description |-> "Simple habit to build consistency",
       color |-> "blue", type |-> "Non Negotiables",
       categories |-> <<[main |-> "Mental", sub |-> "Personal Development"]>>,
       frequencyType |-> "Everyday", selectedDays |-> {},
       timesPerPeriod |-> 1, periodUnit |-> "Week", repeatDays |-> 1,
       order |-> 0, completed |-> <<>>],
      [id |-> 2, name |-> "Life-Improving: Jog in the morning",
       description |-> "Morning exercise for better health",
       color |-> "green", type |-> "Life Goal Habit",
       categories |-> <<[main |-> "Physical", sub |-> "Exercise"]>>,
       frequencyType |-> "Everyday", selectedDays |-> {},
       timesPerPeriod |-> 1, periodUnit |-> "Week", repeatDays |-> 1,
       order |-> 1, completed |-> <<>>],
      [id |-> 3, name |-> "Skill-Building: Code for 30 minutes",
       description |-> "Daily coding practice for skill development",
       color |-> "purple", type |-> "Habit",
       categories |-> <<[main |-> "Work", sub |-> "Skill Development"]>>,
       frequencyType |-> "Everyday", selectedDays |-> {},
       timesPerPeriod |-> 1, periodUnit |-> "Week", repeatDays |-> 1,
       order |-> 2, completed |-> <<>>]>>

\* a run handles at most MaxSteps events: clicks, drags, changes of an input
\* of the form and advances of the clock
MaxSteps == 6


\* the clock when App is mounted
Clock0 == D0 + NOON

\* the name typed into the Habit Name input
NameTexts == {" Stretch "}

\* String.prototype.trim on the texts the model types
trim(text) ==
    CASE text = " Stretch " -> "Stretch"
      [] text = " Music " -> "Music"
      [] text = "  " -> ""
      [] OTHER -> text

\* the radio buttons of Habit Type
HabitTypes == {"Habit", "Anchor Habit", "Life Goal Habit"}

\* the radio buttons of Frequency the model presses
FormFrequencyTypes == {"Everyday", "Numbers of times per period", "Repeats"}

\* e.target.value of a number input, as its characters: the empty string
\* (also what the input reports when its text is not a number), "0", "-2"
\* and "2.7"
NumberTexts == {<<>>, <<"0">>, <<"-", "2">>, <<"2", ".", "7">>}

Digits == <<"0", "1", "2", "3", "4", "5", "6", "7", "8", "9">>

isDigit(c) == \E i \in 1 .. Len(Digits) : Digits[i] = c

digitValue(c) == (CHOOSE i \in 1 .. Len(Digits) : Digits[i] = c) - 1

\* the number written by the digits at the head of text, after acc
RECURSIVE leadingDigits(_, _)
leadingDigits(text, acc) ==
    IF text = <<>> \/ ~isDigit(Head(text)) THEN acc
    ELSE leadingDigits(Tail(text), 10 * acc + digitValue(Head(text)))

\* white space at the head of text dropped
RECURSIVE skipWhiteSpace(_)
skipWhiteSpace(text) ==
    IF text # <<>> /\ Head(text) = " " THEN skipWhiteSpace(Tail(text)) ELSE text

\* parseInt(text): an optional sign and the digits that follow it, the rest of
\* the text ignored; NaN when no digit follows
parseInt(text) ==
    LET t1     == skipWhiteSpace(text)
        signed == t1 # <<>> /\ Head(t1) \in {"-", "+"}
        t2     == IF signed THEN Tail(t1) ELSE t1
        n      == leadingDigits(t2, 0)
    IN  IF t2 = <<>> \/ ~isDigit(Head(t2)) THEN NaN
        ELSE IF signed /\ Head(t1) = "-" THEN Some(-n)
        ELSE Some(n)

\* parseInt(e.target.value) || 1: NaN and 0 are falsy
parseIntOrOne(text) ==
    LET parsed == parseInt(text)
    IN  IF parsed = NaN \/ parsed[1] = 0 THEN 1 ELSE parsed[1]

\* the form after the useEffect that runs when the modal opens
resetForm(habitToEdit) ==
    IF habitToEdit # None
    THEN [habitName |-> habitToEdit[1].name,
          habitDescription |-> habitToEdit[1].description,
          selectedColor |-> habitToEdit[1].color,
          habitType |-> habitToEdit[1].type,
          frequencyType |-> habitToEdit[1].frequencyType,
          selectedCategories |-> habitToEdit[1].categories,
          selectedDays |-> habitToEdit[1].selectedDays,
          timesPerPeriod |-> habitToEdit[1].timesPerPeriod,
          periodUnit |-> habitToEdit[1].periodUnit,
          repeatDays |-> habitToEdit[1].repeatDays]
    ELSE FormDefaults

\* the browser lets the form be submitted: the number input that is shown
\* has min="1"
checkValidity(f) ==
    /\ f.frequencyType = "Numbers of times per period" => f.timesPerPeriod >= 1
    /\ f.frequencyType = "Repeats" => f.repeatDays >= 1

\* habits.filter(h => h.type === 'Anchor Habit').length
habitMuscleCount ==
    Cardinality({i \in 1 .. Len(habits) : habits[i].type = "Anchor Habit"})

\* habits.filter(h => h.type === 'Life Goal Habit').length
lifeGoalsCount ==
    Cardinality({i \in 1 .. Len(habits) : habits[i].type = "Life Goal Habit"})

\* the circle that is pressed is the one of the day App is mounted
ToggleDates == {formatDate(Clock0)}

NoId == 0

\* habits.map(h => h.id)
idsOf(hs) == {hs[i].id : i \in 1 .. Len(hs)}

\* mutant: an edit builds the habit anew, without the marks it had
handleSaveHabitEditAnew(hs, habitData, t) ==
    IF habitData.id # NoId
    THEN [i \in 1 .. Len(hs) |->
            IF hs[i].id = habitData.id
            THEN [hs[i] EXCEPT !.name = habitData.name,
                               !.description = habitData.description,
                               !.color = habitData.color,
                               !.type = habitData.type,
                               !.categories = habitData.categories,
                               !.frequencyType = habitData.frequencyType,
                               !.selectedDays = habitData.selectedDays,
                               !.timesPerPeriod = habitData.timesPerPeriod,
                               !.periodUnit = habitData.periodUnit,
                               !.repeatDays = habitData.repeatDays,
                               !.completed = <<>>]
            ELSE hs[i]]
    ELSE LET maxOrder == Max({hs[i].order : i \in 1 .. Len(hs)} \cup {-1})
             newHabit == [id |-> t,
                          name |-> habitData.name,
                          description |-> habitData.description,
                          color |-> habitData.color,
                          type |-> habitData.type,
                          categories |-> habitData.categories,
                          frequencyType |-> habitData.frequencyType,
                          selectedDays |-> habitData.selectedDays,
                          timesPerPeriod |-> habitData.timesPerPeriod,
                          periodUnit |-> habitData.periodUnit,
                          repeatDays |-> habitData.repeatDays,
                          order |-> maxOrder + 1,
                          completed |-> <<>>]
         IN  Append(hs, newHabit)

\* mutant: a new habit takes the number of habits for its order
handleSaveHabitOrderByCount(hs, habitData, t) ==
    IF habitData.id # NoId
    THEN [i \in 1 .. Len(hs) |->
            IF hs[i].id = habitData.id
            THEN [hs[i] EXCEPT !.name = habitData.name,
                               !.description = habitData.description,
                               !.color = habitData.color,
                               !.type = habitData.type,
                               !.categories = habitData.categories,
                               !.frequencyType = habitData.frequencyType,
                               !.selectedDays = habitData.selectedDays,
                               !.timesPerPeriod = habitData.timesPerPeriod,
                               !.periodUnit = habitData.periodUnit,
                               !.repeatDays = habitData.repeatDays]
            ELSE hs[i]]
    ELSE LET maxOrder == Max({hs[i].order : i \in 1 .. Len(hs)} \cup {-1})
             newHabit == [id |-> t,
                          name |-> habitData.name,
                          description |-> habitData.description,
                          color |-> habitData.color,
                          type |-> habitData.type,
                          categories |-> habitData.categories,
                          frequencyType |-> habitData.frequencyType,
                          selectedDays |-> habitData.selectedDays,
                          timesPerPeriod |-> habitData.timesPerPeriod,
                          periodUnit |-> habitData.periodUnit,
                          repeatDays |-> habitData.repeatDays,
                          order |-> Len(hs),
                          completed |-> <<>>]
         IN  Append(hs, newHabit)

\* handleSaveHabit(habitData), with Date.now() reading t
handleSaveHabit(hs, habitData, t) ==
    IF habitData.id # NoId
    THEN [i \in 1 .. Len(hs) |->
            IF hs[i].id = habitData.id
            THEN [hs[i] EXCEPT !.name = habitData.name,
                               !.description = habitData.description,
                               !.color = habitData.color,
                               !.type = habitData.type,
                               !.categories = habitData.categories,
                               !.frequencyType = habitData.frequencyType,
                               !.selectedDays = habitData.selectedDays,
                               !.timesPerPeriod = habitData.timesPerPeriod,
                               !.periodUnit = habitData.periodUnit,
                               !.repeatDays = habitData.repeatDays]
            ELSE hs[i]]
    ELSE LET maxOrder == Max({hs[i].order : i \in 1 .. Len(hs)} \cup {-1})
             newHabit == [id |-> t,
                          name |-> habitData.name,
                          description |-> habitData.description,
                          color |-> habitData.color,
                          type |-> habitData.type,
                          categories |-> habitData.categories,
                          frequencyType |-> habitData.frequencyType,
                          selectedDays |-> habitData.selectedDays,
                          timesPerPeriod |-> habitData.timesPerPeriod,
                          periodUnit |-> habitData.periodUnit,
                          repeatDays |-> habitData.repeatDays,
                          order |-> maxOrder + 1,
                          completed |-> <<>>]
         IN  Append(hs, newHabit)

\* mutant: the habits created after the deleted one go with it
handleDeleteHabitAndLater(hs, habitId) ==
    LET keep(h) == h.id < habitId IN SelectSeq(hs, keep)

\* handleDeleteHabit(habitId)
handleDeleteHabit(hs, habitId) ==
    LET keep(h) == h.id # habitId IN SelectSeq(hs, keep)

\* mutant: a day marked not done goes back to done
nextCompletedTwoState(currentValue) ==
    IF currentValue = Null \/ currentValue = Undefined THEN "true"
    ELSE IF currentValue = "true" THEN "false"
    ELSE "true"

\* the next value of the cycle null -> true -> false -> null
nextCompleted(currentValue) ==
    IF currentValue = Null \/ currentValue = Undefined THEN "true"
    ELSE IF currentValue = "true" THEN "false"
    ELSE Null

\* mutant: the new map holds the toggled entry only
handleToggleHabitOnlyEntry(hs, habitId, dateString) ==
    [i \in 1 .. Len(hs) |->
        IF hs[i].id = habitId
        THEN LET currentValue == completedAt(hs[i], dateString)
                 newCompleted ==
                    [k \in {dateString} |-> nextCompleted(currentValue)]
             IN  [hs[i] EXCEPT !.completed = newCompleted]
        ELSE hs[i]]

\* handleToggleHabit(habitId, dateString)
handleToggleHabit(hs, habitId, dateString) ==
    [i \in 1 .. Len(hs) |->
        IF hs[i].id = habitId
        THEN LET currentValue == completedAt(hs[i], dateString)
                 newCompleted ==
                    [k \in DOMAIN hs[i].completed \cup {dateString} |->
                        IF k = dateString THEN nextCompleted(currentValue)
                        ELSE hs[i].completed[k]]
             IN  [hs[i] EXCEPT !.completed = newCompleted]
        ELSE hs[i]]

\* x put into a list sorted by order, after the habits of the same order
RECURSIVE insertByOrder(_, _)
insertByOrder(sorted, x) ==
    IF sorted = <<>> THEN <<x>>
    ELSE IF x.order < Head(sorted).order THEN <<x>> \o sorted
    ELSE <<Head(sorted)>> \o insertByOrder(Tail(sorted), x)

\* [...hs].sort((a, b) => a.order - b.order), a stable sort
RECURSIVE sortByOrder(_)
sortByOrder(hs) ==
    IF hs = <<>> THEN <<>>
    ELSE insertByOrder(sortByOrder(SubSeq(hs, 1, Len(hs) - 1)), hs[Len(hs)])

\* findIndex(h => h.id === id), counted from 1; 0 when there is none
findIndex(hs, id) ==
    IF id \in idsOf(hs) THEN Min({i \in 1 .. Len(hs) : hs[i].id = id}) ELSE 0

\* mutant: the dragged habit is put just before the target, also when it is
\* moved down the list
dropUpdateBeforeTarget(prevHabits, dragged, targetHabitId) ==
    LET sortedHabits == sortByOrder(prevHabits)
        draggedIndex == findIndex(sortedHabits, dragged)
        targetIndex  == findIndex(sortedHabits, targetHabitId)
        draggedHabit == sortedHabits[draggedIndex]
        removed      == SubSeq(sortedHabits, 1, draggedIndex - 1)
                        \o SubSeq(sortedHabits, draggedIndex + 1, Len(sortedHabits))
        at           == IF draggedIndex < targetIndex THEN targetIndex - 1
                        ELSE targetIndex
        inserted     == SubSeq(removed, 1, at - 1) \o <<draggedHabit>>
                        \o SubSeq(removed, at, Len(removed))
    IN  IF draggedIndex = 0 \/ targetIndex = 0 THEN prevHabits
        ELSE [i \in 1 .. Len(inserted) |-> [inserted[i] EXCEPT !.order = i - 1]]

\* the updater handleDrop passes to setHabits
dropUpdate(prevHabits, dragged, targetHabitId) ==
    LET sortedHabits == sortByOrder(prevHabits)
        draggedIndex == findIndex(sortedHabits, dragged)
        targetIndex  == findIndex(sortedHabits, targetHabitId)
        draggedHabit == sortedHabits[draggedIndex]
        removed      == SubSeq(sortedHabits, 1, draggedIndex - 1)
                        \o SubSeq(sortedHabits, draggedIndex + 1, Len(sortedHabits))
        inserted     == SubSeq(removed, 1, targetIndex - 1) \o <<draggedHabit>>
                        \o SubSeq(removed, targetIndex, Len(removed))
    IN  IF draggedIndex = 0 \/ targetIndex = 0 THEN prevHabits
        ELSE [i \in 1 .. Len(inserted) |-> [inserted[i] EXCEPT !.order = i - 1]]

AppInit ==
    /\ habits = InitialHabits
    /\ draggedHabitId = None
    /\ showAddHabitModal = FALSE
    /\ selectedHabitToEdit = None
    /\ form = FormDefaults
    /\ steps = 0
    /\ StorageIdle
    /\ now = Clock0
    /\ currentDate = now
    /\ viewMode = "week"
    /\ habit = Null
    /\ date = Null
    /\ call = NoCall
    /\ result = Null

\* a user event is handled; the page behind the open modal takes no click
PageEvent == steps < MaxSteps /\ ~showAddHabitModal /\ steps' = steps + 1

\* a button of the open modal is pressed
ModalEvent == steps < MaxSteps /\ showAddHabitModal /\ steps' = steps + 1

\* time passes
Tick ==
    /\ steps < MaxSteps
    /\ steps' = steps + 1
    /\ now' = now + 1
    /\ UNCHANGED <<habits, draggedHabitId, showAddHabitModal, selectedHabitToEdit,
                   form, engineVars, storageVars, viewVars>>

\* handleAddNewHabit, then the useEffect of the modal
HandleAddNewHabit ==
    /\ PageEvent
    /\ selectedHabitToEdit' = None
    /\ showAddHabitModal' = TRUE
    /\ form' = resetForm(None)
    /\ UNCHANGED <<habits, draggedHabitId, now, engineVars, storageVars, viewVars>>

\* handleEditHabit, then the useEffect of the modal
HandleEditHabit ==
    /\ PageEvent
    /\ \E i \in 1 .. Len(habits) :
          /\ selectedHabitToEdit' = Some(habits[i])
          /\ form' = resetForm(Some(habits[i]))
    /\ showAddHabitModal' = TRUE
    /\ UNCHANGED <<habits, draggedHabitId, now, engineVars, storageVars, viewVars>>

\* an input of the open form changes
FormEvent == ModalEvent

SetHabitName ==
    /\ FormEvent
    /\ \E text \in NameTexts : form' = [form EXCEPT !.habitName = text]
    /\ form' # form
    /\ UNCHANGED <<habits, draggedHabitId, showAddHabitModal, selectedHabitToEdit,
                   now, engineVars, storageVars, viewVars>>

SetHabitType ==
    /\ FormEvent
    /\ \E value \in HabitTypes : form' = [form EXCEPT !.habitType = value]
    /\ form' # form
    /\ UNCHANGED <<habits, draggedHabitId, showAddHabitModal, selectedHabitToEdit,
                   now, engineVars, storageVars, viewVars>>

SetFrequencyType ==
    /\ FormEvent
    /\ \E value \in FormFrequencyTypes :
          form' = [form EXCEPT !.frequencyType = value]
    /\ form' # form
    /\ UNCHANGED <<habits, draggedHabitId, showAddHabitModal, selectedHabitToEdit,
                   now, engineVars, storageVars, viewVars>>

\* the number input shown for 'Numbers of times per period'
SetTimesPerPeriod ==
    /\ FormEvent
    /\ form.frequencyType = "Numbers of times per period"
    /\ \E text \in NumberTexts :
          form' = [form EXCEPT !.timesPerPeriod = parseIntOrOne(text)]
    /\ form' # form
    /\ UNCHANGED <<habits, draggedHabitId, showAddHabitModal, selectedHabitToEdit,
                   now, engineVars, storageVars, viewVars>>

\* the number input shown for 'Repeats'
SetRepeatDays ==
    /\ FormEvent
    /\ form.frequencyType = "Repeats"
    /\ \E text \in NumberTexts :
          form' = [form EXCEPT !.repeatDays = parseIntOrOne(text)]
    /\ form' # form
    /\ UNCHANGED <<habits, draggedHabitId, showAddHabitModal, selectedHabitToEdit,
                   now, engineVars, storageVars, viewVars>>

\* onClose: the backdrop, the X button, Cancel or Escape
OnClose ==
    /\ ModalEvent
    /\ showAddHabitModal' = FALSE
    /\ selectedHabitToEdit' = None
    /\ UNCHANGED <<habits, draggedHabitId, form, now, engineVars, storageVars, viewVars>>

\* the submit button, when the browser finds the form valid: handleSubmit,
\* that is onSaveHabit(habitData), then onClose()
HandleSubmit ==
    /\ ModalEvent
    /\ checkValidity(form)
    /\ trim(form.habitName) # ""
    /\ LET habitToEditId == IF selectedHabitToEdit = None THEN NoId
                            ELSE selectedHabitToEdit[1].id
           habitData == [id |-> habitToEditId,
                         name |-> trim(form.habitName),
                         description |-> trim(form.habitDescription),
                         color |-> form.selectedColor,
                         type |-> form.habitType,
                         categories |-> form.selectedCategories,
                         frequencyType |-> form.frequencyType,
                         selectedDays |-> form.selectedDays,
                         timesPerPeriod |-> form.timesPerPeriod,
                         periodUnit |-> form.periodUnit,
                         repeatDays |-> form.repeatDays]
       IN  habits' = handleSaveHabit(habits, habitData, now)
    /\ showAddHabitModal' = FALSE
    /\ selectedHabitToEdit' = None
    /\ UNCHANGED <<draggedHabitId, form, now, engineVars, storageVars, viewVars>>

\* handleDelete: onDeleteHabit(habitToEdit.id), then onClose()
HandleDelete ==
    /\ ModalEvent
    /\ selectedHabitToEdit # None
    /\ habits' = handleDeleteHabit(habits, selectedHabitToEdit[1].id)
    /\ showAddHabitModal' = FALSE
    /\ selectedHabitToEdit' = None
    /\ UNCHANGED <<draggedHabitId, form, now, engineVars, storageVars, viewVars>>

\* a circle of a habit row is pressed
\* handleDrop(e, targetHabitId) with the state it reads: the habit list and
\* draggedHabitId it leaves
handleDrop(hs, dragged, targetHabitId) ==
    IF dragged = None \/ dragged = Some(targetHabitId)
    THEN [habits |-> hs, draggedHabitId |-> None]
    ELSE [habits |-> dropUpdate(hs, dragged[1], targetHabitId),
          draggedHabitId |-> None]

HandleToggleHabit ==
    /\ PageEvent
    /\ \E i \in 1 .. Len(habits), dateString \in ToggleDates :
          habits' = handleToggleHabit(habits, habits[i].id, dateString)
    /\ UNCHANGED <<draggedHabitId, showAddHabitModal, selectedHabitToEdit,
                   form, now, engineVars, storageVars, viewVars>>

HandleDragStart ==
    /\ PageEvent
    /\ \E i \in 1 .. Len(habits) : draggedHabitId' = Some(habits[i].id)
    /\ UNCHANGED <<habits, showAddHabitModal, selectedHabitToEdit, form, now,
                   engineVars, storageVars, viewVars>>

HandleDrop ==
    /\ PageEvent
    /\ \E i \in 1 .. Len(habits) :
          LET dropped == handleDrop(habits, draggedHabitId, habits[i].id)
          IN  /\ habits' = dropped.habits
              /\ draggedHabitId' = dropped.draggedHabitId
    /\ UNCHANGED <<showAddHabitModal, selectedHabitToEdit, form, now,
                   engineVars, storageVars, viewVars>>

Next ==
    \/ Tick
    \/ HandleAddNewHabit
    \/ HandleEditHabit
    \/ SetHabitName
    \/ SetHabitType
    \/ SetFrequencyType
    \/ SetTimesPerPeriod
    \/ SetRepeatDays
    \/ OnClose
    \/ HandleSubmit
    \/ HandleDelete
    \/ HandleToggleHabit
    \/ HandleDragStart
    \/ HandleDrop

Spec == AppInit /\ [][Next]_vars

(***************************************************************************)
(* Claims about the habit list                                             *)
(***************************************************************************)
\* C10: no two habits of the list have the same id, and a habit that is
\* created gets an id greater than the id of every habit created before it
C10_IdsUniqueAndIncreasing ==
    [][/\ \A i, j \in 1 .. Len(habits') : habits'[i].id = habits'[j].id => i = j
       /\ Len(habits') = Len(habits) + 1
            => \A i \in 1 .. Len(habits) : habits'[Len(habits')].id > habits[i].id]_vars

(***************************************************************************)
(* The category presets kept in browser storage (AddHabitModal.tsx).  A    *)
(* JSON value is a record of its type t and, for an object, its members;   *)
(* a text that JSON.parse accepts is held as the value it denotes, any     *)
(* other text as its characters.  localStorage is None when the key is     *)
(* absent and Some(text) otherwise; setItem is taken to succeed.           *)
(***************************************************************************)
JObject(members) == [t |-> "object", members |-> members]

JArray == [t |-> "array", members |-> <<>>]

JNull == [t |-> "null", members |-> <<>>]

JNumber == [t |-> "number", members |-> <<>>]

JString == [t |-> "string", members |-> <<>>]

\* a text that is not JSON
RawText(chars) == [kind |-> "raw", raw |-> chars, value |-> JNull]

\* JSON.stringify(value)
JSONstringify(value) == [kind |-> "stringified", raw |-> "", value |-> value]

\* JSON.parse(text): Some(value), or None when it throws
JSONparse(text) == IF text.kind = "stringified" THEN Some(text.value) ELSE None

\* typeof value
typeof(value) == IF value.t \in {"object", "array", "null"} THEN "object" ELSE value.t

initialPresetCategories ==
    JObject(
      [main \in {"Physical", "Mental", "Emotional", "Social", "Career",
                 "Personal Growth", "Financial", "Spiritual",
                 "Home & Environment", "Project", "Life"} |->
        CASE main = "Physical" ->
                <<"Exercise", "Nutrition", "Sleep", "Hygiene", "Movement">>
          [] main = "Mental" ->
                <<"Learning", "Mindfulness", "Journaling", "Reading", "Problem Solving">>
          [] main = "Emotional" ->
                <<"Stress Management", "Gratitude", "Self-Compassion",
                  "Emotional Regulation">>
          [] main = "Social" ->
                <<"Relationships", "Community", "Networking", "Communication">>
          [] main = "Career" ->
                <<"Productivity", "Skill Development", "Professional Growth",
                  "Work-Life Balance">>
          [] main = "Personal Growth" ->
                <<"Hobbies", "Creative Projects", "New Skills", "Self-Reflection",
                  "Purpose">>
          [] main = "Financial" ->
                <<"Budgeting", "Saving", "Investing", "Debt Management">>
          [] main = "Spiritual" ->
                <<"Meditation", "Reflection", "Values Alignment", "Connection">>
          [] main = "Home & Environment" ->
                <<"Organization", "Cleaning", "Decluttering", "Sustainability">>
          [] main = "Project" ->
                <<"Side Projects", "Creative Work", "Business Ventures", "Research",
                  "Building">>
          [] OTHER ->
                <<"Life Planning", "Goal Setting", "Life Review", "Major Decisions",
                  "Life Balance">>])

\* loadCategoriesFromLocalStorage() on the storage given: what it returns
\* and what the storage holds afterwards
loadCategoriesFromLocalStorage(storage) ==
    LET stored   == storage
        isTruthy == stored # None /\ stored[1] # RawText("")
        parsed   == IF isTruthy THEN JSONparse(stored[1]) ELSE None
    IN  IF parsed # None /\ typeof(parsed[1]) = "object" /\ parsed[1] # JNull
        THEN [returned |-> parsed[1], storage |-> storage]
        ELSE [returned |-> initialPresetCategories,
              storage  |-> Some(JSONstringify(initialPresetCategories))]

\* saveCategoriesToLocalStorage(categoriesMap)
saveCategoriesToLocalStorage(categoriesMap) == Some(JSONstringify(categoriesMap))

\* what the storage may hold when the page is opened
StoredTexts ==
    {RawText(""), RawText("{oops"),
     JSONstringify(JNull), JSONstringify(JNumber), JSONstringify(JString),
     JSONstringify(JArray), JSONstringify(JObject(<<>>)),
     JSONstringify(JObject("Pets" :> <<"Walk">>)),
     JSONstringify(initialPresetCategories)}

\* the texts typed into the two custom category inputs
CategoryInputs == {"  ", "Pets", " Music ", "Walk"}

\* the main categories the model selects before a sub-category is added
SelectableMains == {"Physical", "Pets"}

StorageInit ==
    /\ habits = InitialHabits
    /\ draggedHabitId = None
    /\ showAddHabitModal = FALSE
    /\ selectedHabitToEdit = None
    /\ form = FormDefaults
    /\ steps = 0
    /\ now = Clock0
    /\ currentDate = now
    /\ viewMode = "week"
    /\ habit = Null
    /\ date = Null
    /\ call = NoCall
    /\ result = Null
    /\ localStorage \in {None} \cup {Some(text) : text \in StoredTexts}
    /\ allCategoriesMap = None

\* AddHabitModal is mounted: useState(loadCategoriesFromLocalStorage)
MountModal ==
    /\ allCategoriesMap = None
    /\ LET loaded == loadCategoriesFromLocalStorage(localStorage)
       IN  /\ allCategoriesMap' = loaded.returned
           /\ localStorage' = loaded.storage
    /\ UNCHANGED <<appVars, now, engineVars, viewVars>>

\* handleAddCustomMainCategory with customMainCategoryInput = input
HandleAddCustomMainCategory ==
    /\ allCategoriesMap # None
    /\ \E input \in CategoryInputs :
          LET trimmedInput     == trim(input)
              newCategoriesMap ==
                  JObject((trimmedInput :> <<>>) @@ allCategoriesMap.members)
          IN  /\ trimmedInput # ""
              /\ trimmedInput \notin DOMAIN allCategoriesMap.members
              /\ allCategoriesMap' = newCategoriesMap
              /\ localStorage' = saveCategoriesToLocalStorage(newCategoriesMap)
    /\ UNCHANGED <<appVars, now, engineVars, viewVars>>

\* a main category is selected, then handleAddCustomSubCategory with
\* customSubCategoryInput = input
HandleAddCustomSubCategory ==
    /\ allCategoriesMap # None
    /\ \E selectedMainCategory \in SelectableMains, input \in CategoryInputs :
          LET trimmedInput     == trim(input)
              members          == allCategoriesMap.members
              newCategoriesMap ==
                  JObject((selectedMainCategory :>
                              Append(members[selectedMainCategory], trimmedInput))
                          @@ members)
          IN  /\ selectedMainCategory \in DOMAIN members
              /\ trimmedInput # ""
              /\ \A k \in 1 .. Len(members[selectedMainCategory]) :
                    members[selectedMainCategory][k] # trimmedInput
              /\ allCategoriesMap' = newCategoriesMap
              /\ localStorage' = saveCategoriesToLocalStorage(newCategoriesMap)
    /\ UNCHANGED <<appVars, now, engineVars, viewVars>>

\* the page is loaded again: the component state is lost, the storage stays
ReloadPage ==
    /\ allCategoriesMap # None
    /\ allCategoriesMap' = None
    /\ UNCHANGED <<appVars, now, engineVars, localStorage, viewVars>>

StorageNext ==
    \/ MountModal
    \/ HandleAddCustomMainCategory
    \/ HandleAddCustomSubCategory
    \/ ReloadPage

SpecStorage == StorageInit /\ [][StorageNext]_vars

\* the key holds a JSON object
holdsJSONObject(storage) ==
    /\ storage # None
    /\ storage[1].kind = "stringified"
    /\ storage[1].value.t = "object"

\* C19: a load returns the stored map and writes nothing when the key holds
\* a JSON object; in every other case it writes the presets under the key and
\* returns them; a second load right after returns the same map
C19_LoadOrInitialize ==
    [][(allCategoriesMap = None /\ allCategoriesMap' # None)
          => /\ IF holdsJSONObject(localStorage)
                THEN /\ allCategoriesMap' = localStorage[1].value
                     /\ localStorage' = localStorage
                ELSE /\ allCategoriesMap' = initialPresetCategories
                     /\ localStorage' = Some(JSONstringify(initialPresetCategories))
             /\ loadCategoriesFromLocalStorage(localStorage').returned
                   = allCategoriesMap']_vars

\* C11: every habit of the list has repeatDays >= 1 and timesPerPeriod >= 1,
\* whatever was typed into the two number inputs of the form
C11_NumbersAtLeastOne ==
    \A i \in 1 .. Len(habits) :
        habits[i].repeatDays >= 1 /\ habits[i].timesPerPeriod >= 1

\* C12: at most one habit of the list has type 'Anchor Habit' and at most
\* three have type 'Life Goal Habit'
C12_TypeLimits == habitMuscleCount <= 1 /\ lifeGoalsCount <= 3

\* what a completed entry means
meaning(v) ==
    IF v = "true" THEN "done"
    ELSE IF v = "false" THEN "not done"
    ELSE "unmarked"

\* C18: a toggle takes an unmarked entry (null or absent) to true, true to
\* false and false to null, so three toggles of the same habit and date
\* bring the entry back to what it meant
C18_ToggleCycle ==
    \A i \in 1 .. Len(habits), dateString \in ToggleDates :
        LET before == completedAt(habits[i], dateString)
            once   == handleToggleHabit(habits, habits[i].id, dateString)
            after  == completedAt(once[i], dateString)
            twice  == handleToggleHabit(once, habits[i].id, dateString)
            thrice == handleToggleHabit(twice, habits[i].id, dateString)
        IN  /\ before \in {Null, Undefined} => after = "true"
            /\ before = "true" => after = "false"
            /\ before = "false" => after = Null
            /\ meaning(completedAt(thrice[i], dateString)) = meaning(before)

\* an entry has been toggled three times, another once
C18_Witness ==
    \E i, j \in 1 .. Len(habits) :
        /\ completedAt(habits[i], formatDate(D0)) = Null
        /\ completedAt(habits[j], formatDate(D0)) = "true"

\* the indices of the habits of hs whose id is not habitId
keptIndices(hs, habitId) == {i \in 1 .. Len(hs) : hs[i].id # habitId}

\* after is before without the habits of id habitId, the others as they
\* were and in the order they had
removedExactly(before, after, habitId) ==
    LET kept == keptIndices(before, habitId)
    IN  /\ Len(after) = Cardinality(kept)
        /\ \A i \in kept :
              after[Cardinality({j \in kept : j <= i})] = before[i]

\* C20: a habit joins the list with an empty completed map; a habit leaves
\* the list only when handleDeleteHabit is called with its id, which removes
\* exactly the habits of that id and leaves the others and their order as
\* they were; deleting an id that no habit has changes nothing
C20_CreatedEmptyRemovedByDelete ==
    [][/\ Len(habits') > Len(habits)
            => /\ Len(habits') = Len(habits) + 1
               /\ habits'[Len(habits')].completed = <<>>
               /\ SubSeq(habits', 1, Len(habits)) = habits
       /\ (Len(habits') < Len(habits) \/ idsOf(habits) \ idsOf(habits') # {})
            => /\ showAddHabitModal
               /\ selectedHabitToEdit # None
               /\ removedExactly(habits, habits', selectedHabitToEdit[1].id)
       /\ habits' # habits
            => \A habitId \in (idsOf(habits) \cup {NoId, now + 1}) :
                 /\ removedExactly(habits, handleDeleteHabit(habits, habitId), habitId)
                 /\ habitId \notin idsOf(habits)
                      => handleDeleteHabit(habits, habitId) = habits]_vars

\* a habit was marked, a habit was created and habit 2 was deleted
C20_Witness ==
    /\ Len(habits) = 3
    /\ habits[1].id = 1
    /\ habits[2].id = 3
    /\ completedAt(habits[2], formatDate(D0)) = "true"
    /\ habits[3].id >= Clock0
    /\ habits[3].completed = <<>>

(***************************************************************************)
(* Claims about the order of the habit list                                *)
(***************************************************************************)
\* the place of the habit at index i of the list on the page: the habits are
\* shown by ascending order, habits of one order as they lie in the list
displayPosition(hs, i) ==
    1 + Cardinality({j \in 1 .. Len(hs) :
                        \/ hs[j].order < hs[i].order
                        \/ hs[j].order = hs[i].order /\ j < i})

\* the habits as the page shows them
displayed(hs) ==
    [p \in 1 .. Len(hs) |->
        hs[CHOOSE i \in 1 .. Len(hs) : displayPosition(hs, i) = p]]

\* the habits the page shows apart from those of the id given, without
\* their order values
othersDisplayed(hs, id) ==
    LET other(h) == h.id # id
        shown    == displayed(hs)
    IN  SelectSeq([p \in 1 .. Len(hs) |-> [shown[p] EXCEPT !.order = 0]], other)

\* exactly one habit of the list has the id
oneHabitHas(hs, id) == Cardinality({i \in 1 .. Len(hs) : hs[i].id = id}) = 1

\* C21: a drop on a target other than the dragged habit, both in the list,
\* puts the dragged habit at the display position the target held, keeps the
\* display order of the other habits and numbers the orders 0..n-1; a drop
\* with nothing dragged or on the dragged habit itself leaves the list as it
\* is; every drop resets draggedHabitId
C21_DropMovesToTargetPosition ==
    \A t \in 1 .. Len(habits) :
        LET targetHabitId == habits[t].id
            dropped       == handleDrop(habits, draggedHabitId, targetHabitId)
            after         == dropped.habits
        IN  /\ dropped.draggedHabitId = None
            /\ (draggedHabitId = None \/ draggedHabitId = Some(targetHabitId))
                  => after = habits
            /\ ( /\ draggedHabitId # None
                 /\ draggedHabitId # Some(targetHabitId)
                 /\ oneHabitHas(habits, draggedHabitId[1])
                 /\ oneHabitHas(habits, targetHabitId) )
                  => /\ Len(after) = Len(habits)
                     /\ {after[i].order : i \in 1 .. Len(after)}
                           = 0 .. Len(habits) - 1
                     /\ \E i \in 1 .. Len(after), d \in 1 .. Len(habits) :
                           /\ after[i].id = draggedHabitId[1]
                           /\ after[i] = [habits[d] EXCEPT !.order = after[i].order]
                           /\ displayPosition(after, i) = displayPosition(habits, t)
                     /\ othersDisplayed(after, draggedHabitId[1])
                           = othersDisplayed(habits, draggedHabitId[1])

\* a drop has moved habit 2 to the top of three habits, and a habit of the
\* list is being dragged again
C21_Witness ==
    /\ Len(habits) = 3
    /\ habits[1].id = 2
    /\ draggedHabitId # None
    /\ draggedHabitId[1] \in idsOf(habits)

(***************************************************************************)
(* The calendar of App: the date and the view it shows, and the handlers   *)
(* of the calendar header and of the month and year views.                 *)
(***************************************************************************)
\* date.setDate(day): the day of the month is set, the time of day is kept
setDate(d, day) == newDate(getFullYear(d), getMonth(d), day) + (d % DAY)

\* mutant: a Sunday is adjusted like the other days
getStartOfWeekSundayLikeOthers(d) ==
    LET day  == getDay(d)
        diff == getDate(d) - day + 1
    IN  setDate(d, diff)

getStartOfWeek(d) ==
    LET day  == getDay(d)
        diff == getDate(d) - day + (IF day = 0 THEN -6 ELSE 1)
    IN  setDate(d, diff)

\* Array.from({ length: 7 }).map((_, i) => addDays(startOfWeek, i))
weekDates(d) ==
    LET startOfWeek == getStartOfWeek(d)
    IN  [k \in 1 .. 7 |-> addDays(startOfWeek, k - 1)]

getFirstDayOfMonth(d) == newDate(getFullYear(d), getMonth(d), 1)

getLastDayOfMonth(d) == newDate(getFullYear(d), getMonth(d) + 1, 0)

getMonthCalendarDays(d) ==
    LET firstDay  == getFirstDayOfMonth(d)
        lastDay   == getLastDayOfMonth(d)
        startDate == getStartOfWeek(firstDay)
        endDate   == addDays(getStartOfWeek(lastDay), 6)
        totalDays == getDaysDifference(startDate, endDate) + 1
    IN  [k \in 1 .. totalDays |-> addDays(startDate, k - 1)]

\* the twelve months YearView shows
months(d) == [k \in 1 .. 12 |-> newDate(getFullYear(d), k - 1, 1)]

\* mutant: the title goes back from the year to the month
handleTitleClickBackFromYear(mode) ==
    IF mode = "week" THEN "month"
    ELSE IF mode = "month" THEN "year"
    ELSE IF mode = "year" THEN "month"
    ELSE mode

\* handleTitleClick: the view mode it sets
handleTitleClick(mode) ==
    IF mode = "week" THEN "month"
    ELSE IF mode = "month" THEN "year"
    ELSE IF mode = "year" THEN "week"
    ELSE mode

\* handlePrevWeek (direction -1) and handleNextWeek (direction 1): the
\* current date they set
handleWeekStep(prevDate, mode, direction) ==
    IF mode = "week" THEN addDays(prevDate, 7 * direction)
    ELSE IF mode = "month"
    THEN newDate(getFullYear(prevDate), getMonth(prevDate) + direction, 1)
    ELSE IF mode = "year"
    THEN newDate(getFullYear(prevDate) + direction, getMonth(prevDate), 1)
    ELSE prevDate

HandleTitleClick ==
    /\ PageEvent
    /\ viewMode' = handleTitleClick(viewMode)
    /\ UNCHANGED <<habits, draggedHabitId, showAddHabitModal, selectedHabitToEdit,
                   form, now, engineVars, storageVars, currentDate>>

HandlePrevWeek ==
    /\ PageEvent
    /\ currentDate' = handleWeekStep(currentDate, viewMode, -1)
    /\ UNCHANGED <<habits, draggedHabitId, showAddHabitModal, selectedHabitToEdit,
                   form, now, engineVars, storageVars, viewMode>>

HandleNextWeek ==
    /\ PageEvent
    /\ currentDate' = handleWeekStep(currentDate, viewMode, 1)
    /\ UNCHANGED <<habits, draggedHabitId, showAddHabitModal, selectedHabitToEdit,
                   form, now, engineVars, storageVars, viewMode>>

\* handleDateClick(date), from a cell of MonthView
HandleDateClick ==
    /\ PageEvent
    /\ viewMode = "month"
    /\ \E k \in 1 .. Len(getMonthCalendarDays(currentDate)) :
          currentDate' = getMonthCalendarDays(currentDate)[k]
    /\ viewMode' = "week"
    /\ UNCHANGED <<habits, draggedHabitId, showAddHabitModal, selectedHabitToEdit,
                   form, now, engineVars, storageVars>>

\* handleDateClick(monthDate), from a month of YearView
HandleMonthClick ==
    /\ PageEvent
    /\ viewMode = "year"
    /\ \E k \in 1 .. 12 : currentDate' = months(currentDate)[k]
    /\ viewMode' = "week"
    /\ UNCHANGED <<habits, draggedHabitId, showAddHabitModal, selectedHabitToEdit,
                   form, now, engineVars, storageVars>>

\* the habit rows are shown in the week view, with a circle for each of the
\* seven dates of the week
CircleShown ==
    /\ viewMode = "week"
    /\ \E k \in 1 .. 7 : formatDate(weekDates(currentDate)[k]) \in ToggleDates

ViewNext ==
    \/ HandleTitleClick
    \/ HandlePrevWeek
    \/ HandleNextWeek
    \/ HandleDateClick
    \/ HandleMonthClick
    \/ CircleShown /\ HandleToggleHabit

SpecView == AppInit /\ [][ViewNext]_vars

\* C22: getStartOfWeek returns the Monday of the Monday-to-Sunday week of its
\* date (six days back for a Sunday, the same day for a Monday), and the
\* seven weekDates are the consecutive days Monday to Sunday of the week of
\* currentDate, currentDate's day among them
C22_WeekStartsOnMonday ==
    /\ \A d \in {currentDate, getFirstDayOfMonth(currentDate),
                  getLastDayOfMonth(currentDate)} :
          LET start      == getStartOfWeek(d)
              sinceMonday == (dayOf(d) - dayOf(D0)) % 7
          IN  /\ dayOf(start) = dayOf(d) - sinceMonday
              /\ (dayOf(start) - dayOf(D0)) % 7 = 0
              /\ weekdayFromD0(start) = "Mon"
              /\ weekdayFromD0(d) = "Sun" => dayOf(start) = dayOf(d) - 6
              /\ weekdayFromD0(d) = "Mon" => dayOf(start) = dayOf(d)
    /\ LET week == weekDates(currentDate)
       IN  /\ Len(week) = 7
           /\ \A k \in 1 .. 6 : dayOf(week[k + 1]) = dayOf(week[k]) + 1
           /\ [k \in 1 .. 7 |-> weekdayFromD0(week[k])]
                 = <<"Mon", "Tue", "Wed", "Thu", "Fri", "Sat", "Sun">>
           /\ \E k \in 1 .. 7 : dayOf(week[k]) = dayOf(currentDate)

\* the current date is a Sunday early in a month: its week starts in the
\* month before
C22_Witness ==
    /\ weekdayFromD0(currentDate) = "Sun"
    /\ getDate(currentDate) < 6
    /\ getMonth(getStartOfWeek(currentDate)) # getMonth(currentDate)

(***************************************************************************)
(* Claims about what a change of the habit list leaves alone               *)
(***************************************************************************)
\* the dates a toggle is asked for: the date of the circle and the day after
FrameDates == {formatDate(Clock0), formatDate(addDays(Clock0, 1))}

\* C23: handleToggleHabit(habitId, dateString) changes nothing but the entry
\* for dateString of the habits whose id is habitId: their other entries and
\* other fields, the other habits, and the number and the order of the
\* habits stay as they are
C23_ToggleFrame ==
    \A i \in 1 .. Len(habits), dateString \in FrameDates :
        LET habitId == habits[i].id
            after   == handleToggleHabit(habits, habitId, dateString)
        IN  /\ Len(after) = Len(habits)
            /\ \A j \in 1 .. Len(habits) :
                  /\ DOMAIN after[j] = DOMAIN habits[j]
                  /\ \A f \in DOMAIN habits[j] \ {"completed"} :
                        after[j][f] = habits[j][f]
                  /\ habits[j].id # habitId => after[j].completed = habits[j].completed
                  /\ habits[j].id = habitId
                       => /\ DOMAIN after[j].completed
                               = DOMAIN habits[j].completed \cup {dateString}
                          /\ \A k \in DOMAIN habits[j].completed \ {dateString} :
                                after[j].completed[k] = habits[j].completed[k]

\* two habits have an entry for the date of the circle, which a toggle of the
\* day after has to keep, and a third habit has none
C23_Witness ==
    /\ Cardinality({i \in 1 .. Len(habits) :
                       formatDate(Clock0) \in DOMAIN habits[i].completed}) = 2
    /\ \E i \in 1 .. Len(habits) : habits[i].completed = <<>>

\* C24: a save that carries the id of a habit replaces the descriptive and
\* schedule fields of that habit by those of the form and keeps its id, order
\* and completed map; it adds and removes no habit and leaves the habits of
\* other ids as they are; a save without an id appends one new habit and
\* changes no habit of the list
C24_SaveFrame ==
    [][(showAddHabitModal /\ ~showAddHabitModal' /\ Len(habits') >= Len(habits))
          => IF selectedHabitToEdit # None
             THEN LET edited == selectedHabitToEdit[1].id
                  IN  /\ Len(habits') = Len(habits)
                      /\ \A j \in 1 .. Len(habits) :
                            /\ habits'[j].id = habits[j].id
                            /\ habits'[j].order = habits[j].order
                            /\ habits'[j].completed = habits[j].completed
                            /\ habits[j].id # edited => habits'[j] = habits[j]
                            /\ (habits[j].id = edited /\ habits' # habits)
                                 => /\ habits'[j].name = trim(form.habitName)
                                    /\ habits'[j].description
                                         = trim(form.habitDescription)
                                    /\ habits'[j].color = form.selectedColor
                                    /\ habits'[j].type = form.habitType
                                    /\ habits'[j].categories = form.selectedCategories
                                    /\ habits'[j].frequencyType = form.frequencyType
                                    /\ habits'[j].selectedDays = form.selectedDays
                                    /\ habits'[j].timesPerPeriod = form.timesPerPeriod
                                    /\ habits'[j].periodUnit = form.periodUnit
                                    /\ habits'[j].repeatDays = form.repeatDays
             ELSE /\ Len(habits') <= Len(habits) + 1
                  /\ SubSeq(habits', 1, Len(habits)) = habits]_vars

\* a habit that carries a mark was edited to another type and saved
C24_Witness ==
    /\ ~showAddHabitModal
    /\ Len(habits) = 3
    /\ \E j \in 1 .. 3 :
          /\ habits[j].type # InitialHabits[j].type
          /\ habits[j].id = InitialHabits[j].id
          /\ habits[j].completed # <<>>

(***************************************************************************)
(* Claims about the two streak counts and the two schedule functions       *)
(***************************************************************************)
\* C25: on the same day and for the same habit, the highestStreak of
\* calculateHabitStats is at least the streak of calculateStreak
C25_HighestAtLeastCurrent ==
    /\ Streaked => calculateHabitStats(habit, now).highestStreak >= result
    /\ Counted => result.highestStreak >= calculateStreak(habit, now)

\* C26: for a date at midnight from the creation day on, isHabitScheduledOnDay
\* of App and the schedule function inside calculateHabitStats return the
\* same boolean
C26_SchedulesAgree ==
    (Scheduled /\ date = setHoursZero(date) /\ setHoursZero(habit.id) <= date)
        => result = statsIsHabitScheduledOnDay(habit, date, setHoursZero(habit.id))

(***************************************************************************)
(* Claims about the order values                                           *)
(***************************************************************************)
\* no two habits of the list have the same order
OrdersUnique ==
    \A i, j \in 1 .. Len(habits) : habits[i].order = habits[j].order => i = j

\* C27: no two habits of the list ever have the same order, and a habit that
\* is created has an order greater than that of every habit of the list, so
\* it is displayed last
C27_OrdersUnique ==
    /\ []OrdersUnique
    /\ [][Len(habits') = Len(habits) + 1
            => /\ \A i \in 1 .. Len(habits) :
                     habits'[Len(habits')].order > habits[i].order
               /\ displayPosition(habits', Len(habits')) = Len(habits')]_vars

\* habit 2 was deleted and a habit was created: its order is beyond the gap
C27_Witness ==
    /\ Len(habits) = 3
    /\ habits[2].order = 2
    /\ habits[3].id >= Clock0
    /\ habits[3].order = 3

\* C28: the highestStreak that calculateHabitStats returns is at most the
\* totalCompletions of the same call
C28_HighestAtMostTotal ==
    Counted => result.highestStreak <= result.totalCompletions

\* every completion of the habit is in its longest run, which has four
\* days or more
C28_Witness ==
    /\ Counted
    /\ result.highestStreak >= 4
    /\ result.highestStreak = result.totalCompletions

(***************************************************************************)
(* Claims about the view mode                                              *)
(***************************************************************************)
\* the mode a title click leads to, as the cycle week -> month -> year -> week
afterTitleClick == [week |-> "month", month |-> "year", year |-> "week"]

\* the view mode is one of the three, a title click leads to the next of the
\* cycle and three of them lead back
ViewModeCycles ==
    /\ viewMode \in {"week", "month", "year"}
    /\ handleTitleClick(viewMode) = afterTitleClick[viewMode]
    /\ handleTitleClick(handleTitleClick(handleTitleClick(viewMode))) = viewMode

\* the dates of a sequence of dates
datesOf(ds) == {ds[k] : k \in 1 .. Len(ds)}

\* what a step that changes the view may do: it leaves the habit list alone;
\* it leads to the month or the year only along the cycle, the date kept;
\* from the month view it leads to the week of a cell of the month, from the
\* year view to the week of a month of the year or, by the title, of the date
ViewStep ==
    /\ (viewMode' # viewMode \/ currentDate' # currentDate) => habits' = habits
    /\ (viewMode' # viewMode /\ viewMode' # "week")
         => /\ viewMode' = afterTitleClick[viewMode]
            /\ currentDate' = currentDate
    /\ (viewMode = "month" /\ viewMode' = "week")
         => currentDate' \in datesOf(getMonthCalendarDays(currentDate))
    /\ (viewMode = "year" /\ viewMode' = "week")
         => currentDate' \in datesOf(months(currentDate)) \cup {currentDate}

\* C29: title clicks cycle viewMode week -> month -> year -> week, so that it
\* is always one of the three and three clicks restore it; a click on a date
\* of the month view or a month of the year view sets viewMode to week and
\* currentDate to the date clicked; none of these changes the habit list
C29_ViewModeCycle == []ViewModeCycles /\ [][ViewStep]_vars

\* a title click and a click on a cell of the month view have led to the
\* week of a date other than today's
C29_Witness ==
    /\ steps = 2
    /\ viewMode = "week"
    /\ currentDate % DAY = 0
    /\ formatDate(currentDate) # formatDate(now)

====
